---- MODULE Spec2Model ----
(***************************************************************************)
(* Model of zenv's Lines (src/src/parser/lines.rs): the projection of the  *)
(* parsed KeyVal entries into a map (to_hash_map) and the variable         *)
(* substitution pass over double-quoted values (expand); and of the        *)
(* launcher (src/src/main.rs), the steps main takes up to its exit.        *)
(*                                                                         *)
(* Strings are sequences of one-character strings.  A HashMap is a         *)
(* function whose DOMAIN is its key set.  An Option is a sequence of       *)
(* length 0 (None) or 1 (Some).                                            *)
(***************************************************************************)
EXTENDS Naturals, Sequences, FiniteSets, TLC

VARIABLES
    input,      \* the Vec<Line> handed to Lines::new
    environ,    \* the ambient process environment read by env::var
    lines,      \* Lines.lines: the KeyVal entries, in file order
    pc,         \* position of the caller: "idle", "for" (head of the for loop), "scan" (inside the loop)
    hash,       \* Option: the map returned by the last to_hash_map call
    vars,       \* Option: expand's accumulator `vars`; at "idle" the map expand returned
    li,         \* index in lines of the entry the for loop is at
    chars,      \* the unread rest of the iterator `chars`
    new_val,    \* the String `new_val` being built
    main        \* the launcher process: where main is, its locals, the steps it took, its exit

vars_all == <<input, environ, lines, pc, hash, vars, li, chars, new_val, main>>

-----------------------------------------------------------------------------
(* Bounds of the model *)

\* longest double-quoted value whose every spelling is enumerated
MaxLen == 4

\* longest input whose every combination of lines is enumerated
MaxLines == 3

\* longest text before and after an enumerated brace reference
MaxAffix == 1

\* largest exit code of the enumerated exit codes
MaxCode == 2

\* characters the enumerated values are spelled with
Chars == {"$", "{", "}", "A", "!"}

\* characters of the text before and after an enumerated reference
AffixChars == {"}", "_", "!"}

\* keys of the enumerated entries
Keys == {<<"A">>, <<"A", "_">>}

\* raw values of the entries that accompany an enumerated value
BaseValues == {<<"x">>, <<"$", "{", "A", "}">>}

\* the enumerated references
RefForms ==
    {<<"$", "{", "A", "}">>, <<"$", "{", "A", "_", "}">>, <<"$", "{", "!", "}">>,
     <<"$", "{", "}">>, <<"$", "{", "{", "A", "}">>,
     <<"$", "A">>, <<"$", "A", "_">>, <<"$", "_">>, <<"$", "!">>}

\* the ambient environments
Envs == {<< >>, [n \in {<<"A">>} |-> <<"y">>]}

-----------------------------------------------------------------------------
(* Data model: Quote, KeyVal, Line *)

Quote == {"None", "Single", "Double"}

KeyVal(k, v, q) == [kind |-> "KeyVal", k |-> k, v |-> v, q |-> q]

Comment == [kind |-> "Comment"]

Blank == [kind |-> "Blank"]

None == <<>>

Some(x) == <<x>>

\* HashInsert as a map that keeps the value a key already has
HashInsertKeepFirst(h, k, v) ==
    [x \in (DOMAIN h) \cup {k} |-> IF x \in DOMAIN h THEN h[x] ELSE v]

\* HashMap::insert: the key is added, or its value overwritten
HashInsert(h, k, v) == [x \in (DOMAIN h) \cup {k} |-> IF x = k THEN v ELSE h[x]]

EmptyMap == [x \in {} |-> <<>>]

\* Lines::new: keep the KeyVal lines, drop Comment and Blank
New(ls) == SelectSeq(ls, LAMBDA x : x.kind = "KeyVal")

\* Lines::to_hash_map: insert every entry in file order into an empty map
RECURSIVE to_hash_map_from(_, _, _)
to_hash_map_from(ls, i, h) ==
    IF i > Len(ls) THEN h
    ELSE to_hash_map_from(ls, i + 1, HashInsert(h, ls[i].k, ls[i].v))

to_hash_map(ls) == to_hash_map_from(ls, 1, EmptyMap)

-----------------------------------------------------------------------------
(* The scanner of expand *)

\* char::is_alphanumeric, on the characters the model spells values with
IsAlphanumeric(c) == c \in {"A", "B", "C", "x", "y", "1", "2"}

\* the predicate of the bare name's take_while
IsNameChar(c) == IsAlphanumeric(c) \/ c = "_"

\* the predicate of the brace name's take_while
NotClose(c) == c /= "}"

\* the positions of s whose character is not a name character
NameFails(s) == {i \in 1..Len(s) : ~IsNameChar(s[i])}

\* the positions of s whose character is '}'
CloseFails(s) == {i \in 1..Len(s) : ~NotClose(s[i])}

\* position of the first element of s that fails take_while's predicate, given
\* the positions that fail it; Len(s) + 1 when none does
FirstFail(s, fails) ==
    IF fails = {} THEN Len(s) + 1
    ELSE CHOOSE i \in fails : \A j \in fails : i <= j

\* what chars.by_ref().take_while(..).collect() yields
TakeWhile(s, fails) == SubSeq(s, 1, FirstFail(s, fails) - 1)

\* what is left in the iterator: take_while also consumes the first failing element
AfterTakeWhile(s, fails) == SubSeq(s, FirstFail(s, fails) + 1, Len(s))

\* EnvVar that leaves the name in place of a variable that is not set
EnvVarKeepName(key) == IF key \in DOMAIN environ THEN environ[key] ELSE key

\* env::var(&key).unwrap_or_default()
EnvVar(key) == IF key \in DOMAIN environ THEN environ[key] ELSE <<>>

\* Found with the lookups in the other order: the environment first
FoundEnvFirst(acc, key) ==
    IF key \in DOMAIN environ THEN environ[key]
    ELSE IF key \in DOMAIN acc THEN acc[key] ELSE << >>

\* the match on vars.get(&key): the accumulator first, the environment otherwise
Found(acc, key) == IF key \in DOMAIN acc THEN acc[key] ELSE EnvVar(key)

\* v.chars().rev().skip(idx).take(1).next()
RevSkip(v, idx) == IF idx < Len(v) THEN Some(v[Len(v) - idx]) ELSE None

\* the `if is_consumed` block: what is pushed after the resolved value
Replay(v, rest) ==
    LET idx == Len(rest)
    IN  IF idx = 0 THEN <<>> ELSE RevSkip(v, idx)

-----------------------------------------------------------------------------
(* The inputs *)

RECURSIVE Strings(_, _)
Strings(C, n) ==
    IF n = 0 THEN {<< >>}
    ELSE LET S == Strings(C, n - 1) IN S \cup {Append(s, c) : s \in S, c \in C}

RECURSIVE SeqsUpTo(_, _)
SeqsUpTo(S, n) ==
    IF n = 0 THEN {<< >>}
    ELSE LET T == SeqsUpTo(S, n - 1) IN T \cup {Append(t, e) : t \in T, e \in S}

\* single-quoted entries that may precede an enumerated double-quoted value
Before ==
    {KeyVal(<<"A">>, <<"x">>, "Single"),
     KeyVal(<<"A", "_">>, <<"$", "{", "A", "}">>, "Single"),
     KeyVal(<<"!">>, <<"x">>, "Single")}

\* the inputs of one double-quoted entry with a value of vs, alone or after one entry
Focused(vs) ==
    LET focus == {KeyVal(k, v, "Double") : k \in Keys, v \in vs}
    IN  {<<f>> : f \in focus} \cup {<<b, f>> : b \in Before, f \in focus}

\* a double-quoted value of any spelling
ScanInputs == Focused(Strings(Chars, MaxLen))

\* a double-quoted value of the form prefix reference suffix
RefInputs ==
    LET affix == Strings(AffixChars, MaxAffix)
    IN  Focused({p \o r \o s : p \in affix, r \in RefForms, s \in affix})

\* every sequence of lines of every quote style over the base values
EntryInputs ==
    LET entry == {KeyVal(k, v, q) : k \in Keys, v \in BaseValues, q \in Quote}
    IN  SeqsUpTo(entry \cup {Comment, Blank}, MaxLines)

\* A references B, B references C, in every order of the three lines
ChainInputs ==
    LET ref(n) == {<<"$", "{">> \o n \o <<"}">>, <<"$">> \o n}
        a == {KeyVal(<<"A">>, v, "Double") : v \in ref(<<"B">>)}
        b == {KeyVal(<<"B">>, v, "Double") : v \in ref(<<"C">>)}
        c == {KeyVal(<<"C">>, v, "Double") : v \in {<<"x">>, <<"$", "A">>}}
    IN  UNION {{<<x, y, z>>, <<x, z, y>>, <<y, x, z>>, <<y, z, x>>, <<z, x, y>>, <<z, y, x>>} :
               <<x, y, z>> \in a \X b \X c}

Inputs == ScanInputs \cup RefInputs \cup EntryInputs \cup ChainInputs

-----------------------------------------------------------------------------
(* The launcher's data *)

\* exit(0) after the help text
HelpCode == 0

\* exit_status.code().unwrap_or(1)
NoCode == 1

Codes == 0..MaxCode

Paths == {"a.env", "b.env"}

Binaries == {"node", "npm"}

Opt(S) == {None} \cup {Some(x) : x \in S}

\* the fields of Cli main reads
Cli == [help : BOOLEAN, expand : BOOLEAN, path : Opt(Paths), binary : Opt(Binaries)]

\* what the child does in the end: ExitStatus::code() is Some(code), or None
ExitStatuses == Opt(Codes)

\* no launcher process
MainOff ==
    [at |-> "off", args |-> None, fpath |-> None, binary |-> None, vars |-> FALSE,
     spawned |-> 0, program |-> None, code |-> None, exit |-> None, log |-> << >>]

\* the launcher process at the first statement of main
MainStart == [MainOff EXCEPT !.at = "parse"]

\* the Err arm of assert_result! and the None arm of assert_arg!: the process ends
\* there with a fatal error, with the exit code c
Fatal(m, step, c) ==
    [m EXCEPT !.at = "done", !.exit = Some(c), !.log = m.log \o <<step, "fatal">>]

\* a statement of main that went through
Step(m, step, next) ==
    [m EXCEPT !.at = next, !.log = m.log \o <<step>>]

-----------------------------------------------------------------------------
(* The operations *)

\* the entry the for loop is at
line == lines[li]

\* the accumulator map
acc == vars[1]

Init ==
    /\ input \in Inputs
    /\ environ \in Envs
    /\ lines = New(input)
    /\ pc = "idle"
    /\ hash = None
    /\ vars = None
    /\ li = 1
    /\ chars = << >>
    /\ new_val = << >>
    /\ main = MainOff

\* a call of to_hash_map
ToHashMap ==
    /\ pc = "idle"
    /\ hash' = Some(to_hash_map(lines))
    /\ UNCHANGED <<main, input, environ, lines, pc, vars, li, chars, new_val>>

\* ExpandBegin with an accumulator that starts empty
ExpandBeginEmpty ==
    /\ pc = "idle"
    /\ vars' = Some(EmptyMap)
    /\ li' = 1
    /\ pc' = "for"
    /\ chars' = << >>
    /\ new_val' = << >>
    /\ UNCHANGED <<main, input, environ, lines, hash>>

\* a call of expand: the accumulator is seeded with the plain map
ExpandBegin ==
    /\ pc = "idle"
    /\ vars' = Some(to_hash_map(lines))
    /\ li' = 1
    /\ pc' = "for"
    /\ chars' = << >>
    /\ new_val' = << >>
    /\ UNCHANGED <<main, input, environ, lines, hash>>

\* the for loop passes over an entry that is not double-quoted
ForSkip ==
    /\ pc = "for"
    /\ li <= Len(lines)
    /\ line.q /= "Double"
    /\ li' = li + 1
    /\ UNCHANGED <<main, input, environ, lines, pc, hash, vars, chars, new_val>>

\* the for loop enters a double-quoted entry
ForDouble ==
    /\ pc = "for"
    /\ li <= Len(lines)
    /\ line.q = "Double"
    /\ new_val' = << >>
    /\ chars' = line.v
    /\ pc' = "scan"
    /\ UNCHANGED <<main, input, environ, lines, hash, vars, li>>

\* the for loop is over: expand returns vars
ExpandEnd ==
    /\ pc = "for"
    /\ li > Len(lines)
    /\ pc' = "idle"
    /\ UNCHANGED <<main, input, environ, lines, hash, vars, li, chars, new_val>>

\* Some(a): an ordinary character is copied
CopyChar ==
    /\ pc = "scan"
    /\ chars /= << >>
    /\ Head(chars) /= "$"
    /\ new_val' = Append(new_val, Head(chars))
    /\ chars' = Tail(chars)
    /\ UNCHANGED <<main, input, environ, lines, pc, hash, vars, li>>

\* BraceRef that copies an unterminated "${" as text
BraceRefLiteralIfOpen ==
    /\ pc = "scan"
    /\ Len(chars) >= 2
    /\ chars[1] = "$"
    /\ chars[2] = "{"
    /\ LET after == SubSeq(chars, 3, Len(chars))
           key == TakeWhile(after, CloseFails(after))
       IN  IF CloseFails(after) = {}
           THEN /\ new_val' = new_val \o <<"$", "{">>
                /\ chars' = after
           ELSE /\ new_val' = new_val \o Found(acc, key)
                /\ chars' = AfterTakeWhile(after, CloseFails(after))
    /\ UNCHANGED <<main, input, environ, lines, pc, hash, vars, li>>

\* BraceRef that puts the resolved value back in front of the unread characters
BraceRefRescan ==
    /\ pc = "scan"
    /\ Len(chars) >= 2
    /\ chars[1] = "$"
    /\ chars[2] = "{"
    /\ LET after == SubSeq(chars, 3, Len(chars))
           key == TakeWhile(after, CloseFails(after))
       IN  /\ new_val' = new_val
           /\ chars' = Found(acc, key) \o AfterTakeWhile(after, CloseFails(after))
    /\ UNCHANGED <<main, input, environ, lines, pc, hash, vars, li>>

\* BraceRef with a take_while that leaves the closing '}' in the iterator
BraceRefKeepsClose ==
    /\ pc = "scan"
    /\ Len(chars) >= 2
    /\ chars[1] = "$"
    /\ chars[2] = "{"
    /\ LET after == SubSeq(chars, 3, Len(chars))
           key == TakeWhile(after, CloseFails(after))
       IN  /\ new_val' = new_val \o Found(acc, key)
           /\ chars' = SubSeq(after, Len(key) + 1, Len(after))
    /\ UNCHANGED <<main, input, environ, lines, pc, hash, vars, li>>

\* Some('$') then Some('{'): the name runs to the first '}'
BraceRef ==
    /\ pc = "scan"
    /\ Len(chars) >= 2
    /\ chars[1] = "$"
    /\ chars[2] = "{"
    /\ LET after == SubSeq(chars, 3, Len(chars))
           key == TakeWhile(after, CloseFails(after))
       IN  /\ new_val' = new_val \o Found(acc, key)
           /\ chars' = AfterTakeWhile(after, CloseFails(after))
    /\ UNCHANGED <<main, input, environ, lines, pc, hash, vars, li>>

\* BareRef that starts a name only at a name character: a '$' before any other
\* character is copied as text
BareRefIdentOnly ==
    /\ pc = "scan"
    /\ Len(chars) >= 2
    /\ chars[1] = "$"
    /\ chars[2] /= "{"
    /\ LET after == SubSeq(chars, 3, Len(chars))
           key == <<chars[2]>> \o TakeWhile(after, NameFails(after))
           rest == AfterTakeWhile(after, NameFails(after))
       IN  IF IsNameChar(chars[2])
           THEN /\ new_val' = new_val \o Found(acc, key) \o Replay(line.v, rest)
                /\ chars' = rest
           ELSE /\ new_val' = Append(new_val, "$")
                /\ chars' = Tail(chars)
    /\ UNCHANGED <<main, input, environ, lines, pc, hash, vars, li>>

\* Some('$') then Some(x): the name is x and the name characters after it
BareRef ==
    /\ pc = "scan"
    /\ Len(chars) >= 2
    /\ chars[1] = "$"
    /\ chars[2] /= "{"
    /\ LET after == SubSeq(chars, 3, Len(chars))
           key == <<chars[2]>> \o TakeWhile(after, NameFails(after))
           rest == AfterTakeWhile(after, NameFails(after))
       IN  /\ new_val' = new_val \o Found(acc, key) \o Replay(line.v, rest)
           /\ chars' = rest
    /\ UNCHANGED <<main, input, environ, lines, pc, hash, vars, li>>

\* DollarEnd that copies the '$' instead of resolving the empty name
DollarEndLiteral ==
    /\ pc = "scan"
    /\ chars = <<"$">>
    /\ new_val' = new_val \o <<"$">>
    /\ chars' = << >>
    /\ UNCHANGED <<main, input, environ, lines, pc, hash, vars, li>>

\* Some('$') then None: the name is empty
DollarEnd ==
    /\ pc = "scan"
    /\ chars = <<"$">>
    /\ new_val' = new_val \o Found(acc, << >>)
    /\ chars' = << >>
    /\ UNCHANGED <<main, input, environ, lines, pc, hash, vars, li>>

\* ScanBreak that also writes the rewritten value back into the stored entry
ScanBreakWritesBack ==
    /\ pc = "scan"
    /\ chars = << >>
    /\ vars' = Some(HashInsert(acc, line.k, new_val))
    /\ lines' = [lines EXCEPT ![li].v = new_val]
    /\ li' = li + 1
    /\ pc' = "for"
    /\ new_val' = << >>
    /\ UNCHANGED <<main, input, environ, hash, chars>>

\* ScanBreak that drops the rewritten value
ScanBreakNoStore ==
    /\ pc = "scan"
    /\ chars = << >>
    /\ li' = li + 1
    /\ pc' = "for"
    /\ new_val' = << >>
    /\ UNCHANGED <<main, input, environ, lines, hash, vars, chars>>

\* None: break, and the rewritten value is stored under the entry's key
ScanBreak ==
    /\ pc = "scan"
    /\ chars = << >>
    /\ vars' = Some(HashInsert(acc, line.k, new_val))
    /\ li' = li + 1
    /\ pc' = "for"
    /\ new_val' = << >>
    /\ UNCHANGED <<main, input, environ, lines, hash, chars>>

Next ==
    \/ ToHashMap
    \/ ExpandBegin
    \/ ForSkip
    \/ ForDouble
    \/ ExpandEnd
    \/ CopyChar
    \/ BraceRef
    \/ BareRef
    \/ DollarEnd
    \/ ScanBreak

Spec == Init /\ [][Next]_vars_all

-----------------------------------------------------------------------------
(* The launcher: fn main *)

lines_vars == <<input, environ, lines, pc, hash, vars, li, chars, new_val>>

MainInit ==
    /\ input = << >>
    /\ environ = << >>
    /\ lines = New(input)
    /\ pc = "idle"
    /\ hash = None
    /\ vars = None
    /\ li = 1
    /\ chars = << >>
    /\ new_val = << >>
    /\ main = MainStart

\* let args = assert_result!(Cli::parse()); if args.help
CliParse ==
    /\ main.at = "parse"
    /\ \/ \E a \in Cli :
             main' = [Step(main, "args", IF a.help THEN "help" ELSE "path") EXCEPT !.args = Some(a)]
       \/ \E c \in Codes : main' = Fatal(main, "args", c)
    /\ UNCHANGED lines_vars

\* print!("{}", HELP); exit(0)
HelpExit ==
    /\ main.at = "help"
    /\ main' = [Step(main, "help", "done") EXCEPT !.exit = Some(HelpCode)]
    /\ UNCHANGED lines_vars

\* let fpath = assert_arg!(args.path, ..)
PathArg ==
    /\ main.at = "path"
    /\ \/ /\ main.args[1].path /= None
          /\ main' = [Step(main, "path", "binary") EXCEPT !.fpath = main.args[1].path]
       \/ /\ main.args[1].path = None
          /\ \E c \in Codes : main' = Fatal(main, "path", c)
    /\ UNCHANGED lines_vars

\* let binary = assert_arg!(args.binary, ..)
BinaryArg ==
    /\ main.at = "binary"
    /\ \/ /\ main.args[1].binary /= None
          /\ main' = [Step(main, "binary", "file") EXCEPT !.binary = main.args[1].binary]
       \/ /\ main.args[1].binary = None
          /\ \E c \in Codes : main' = Fatal(main, "binary", c)
    /\ UNCHANGED lines_vars

\* let vars = assert_result!(Zenv::new(fpath, args.expand).parse())
ZenvParse ==
    /\ main.at = "file"
    /\ \/ main' = [Step(main, "file", "spawn") EXCEPT !.vars = TRUE]
       \/ \E c \in Codes : main' = Fatal(main, "file", c)
    /\ UNCHANGED lines_vars

\* let mut program = assert_result!(Command::new(&binary)....envs(vars).spawn()..)
CommandSpawn ==
    /\ main.at = "spawn"
    /\ \/ \E st \in ExitStatuses :
             main' = [Step(main, "spawn", "wait") EXCEPT !.spawned = main.spawned + 1,
                                                         !.program = Some(st)]
       \/ \E c \in Codes : main' = Fatal(main, "spawn", c)
    /\ UNCHANGED lines_vars

\* ProgramWait with unwrap_or(0)
ProgramWaitOrZero ==
    /\ main.at = "wait"
    /\ \/ LET exit_status == main.program[1]
          IN main' = [Step(main, "wait", "exit") EXCEPT
                          !.code = IF exit_status = None THEN Some(0) ELSE exit_status]
       \/ \E c \in Codes : main' = Fatal(main, "wait", c)
    /\ UNCHANGED lines_vars

\* let code = { let exit_status = assert_result!(program.wait()..); exit_status.code().unwrap_or(1) }
ProgramWait ==
    /\ main.at = "wait"
    /\ \/ LET exit_status == main.program[1]
          IN main' = [Step(main, "wait", "exit") EXCEPT
                          !.code = IF exit_status = None THEN Some(NoCode) ELSE exit_status]
       \/ \E c \in Codes : main' = Fatal(main, "wait", c)
    /\ UNCHANGED lines_vars

\* exit(code)
ExitCode ==
    /\ main.at = "exit"
    /\ main' = [Step(main, "exit", "done") EXCEPT !.exit = main.code]
    /\ UNCHANGED lines_vars

MainNext ==
    \/ CliParse
    \/ HelpExit
    \/ PathArg
    \/ BinaryArg
    \/ ZenvParse
    \/ CommandSpawn
    \/ ProgramWait
    \/ ExitCode

MainSpec == MainInit /\ [][MainNext]_vars_all

-----------------------------------------------------------------------------
(* Vocabulary of the properties *)

HasChar(s, c) == \E i \in 1..Len(s) : s[i] = c

\* the resolution rule of the specification: accumulator, then environment, then empty
Resolve(a, n) ==
    IF n \in DOMAIN a THEN a[n]
    ELSE IF n \in DOMAIN environ THEN environ[n]
    ELSE << >>

\* the scan of the current entry has read its whole value: new_val is the rewritten value
ScanDone == pc = "scan" /\ chars = << >>

\* expand has returned vars
Returned == pc = "idle" /\ vars /= None

\* index of the last entry of ls with key k
LastIndex(ls, k) ==
    CHOOSE i \in 1..Len(ls) : ls[i].k = k /\ \A j \in (i + 1)..Len(ls) : ls[j].k /= k

BraceForm(n) == <<"$", "{">> \o n \o <<"}">>

BareForm(n) == <<"$">> \o n

\* v is text without '$', then $NAME, then the character v[t] that ends the name, then text without '$'
BareRefAt(v, d, t) ==
    /\ v[d] = "$"
    /\ d + 1 < t
    /\ \A i \in (d + 1)..(t - 1) : IsNameChar(v[i])
    /\ ~IsNameChar(v[t])
    /\ \A i \in (1..(d - 1)) \cup ((t + 1)..Len(v)) : v[i] /= "$"

\* v is text without '$', then ${NAME} closed at v[c], then text without '$'
BraceRefAt(v, o, c) ==
    /\ o + 1 < c
    /\ v[o] = "$"
    /\ v[o + 1] = "{"
    /\ v[c] = "}"
    /\ \A i \in (o + 2)..(c - 1) : v[i] /= "}"
    /\ \A i \in (1..(o - 1)) \cup ((c + 1)..Len(v)) : v[i] /= "$"

\* v is exactly one reference, ${n} or $n, to the name n
IsWholeRef(v, n) ==
    \/ v = BraceForm(n) /\ ~HasChar(n, "}")
    \/ /\ v = BareForm(n)
       /\ n /= << >>
       /\ n[1] /= "{"
       /\ \A i \in 2..Len(n) : IsNameChar(n[i])

\* the names v can be one reference to
WholeRefNames(v) ==
    {n \in {SubSeq(v, 2, Len(v)), SubSeq(v, 3, Len(v) - 1)} : IsWholeRef(v, n)}

\* the keys of the entries
KeysOf(ls) == {ls[i].k : i \in 1..Len(ls)}

\* entry i is the only entry of ls with its key
OnlyEntry(ls, i) == \A j \in 1..Len(ls) : ls[j].k = ls[i].k => j = i

\* an entry before i is double-quoted and has the key of entry i
EarlierDouble(ls, i) == \E j \in 1..(i - 1) : ls[j].k = ls[i].k /\ ls[j].q = "Double"

\* entries a, b, c of ls are double-quoted, have three keys defined once each,
\* a is one reference to b and b is one reference to c
Chain(ls, a, b, c) ==
    /\ ls[a].q = "Double" /\ ls[b].q = "Double" /\ ls[c].q = "Double"
    /\ ls[a].k /= ls[b].k /\ ls[b].k /= ls[c].k /\ ls[a].k /= ls[c].k
    /\ OnlyEntry(ls, a) /\ OnlyEntry(ls, b) /\ OnlyEntry(ls, c)
    /\ IsWholeRef(ls[a].v, ls[b].k)
    /\ IsWholeRef(ls[b].v, ls[c].k)

\* s begins with p
IsPrefix(p, s) == Len(p) <= Len(s) /\ SubSeq(s, 1, Len(p)) = p

\* v[d] is the first '$' of v and the character after it is not '{'
FirstBareAt(v, d) ==
    /\ d < Len(v)
    /\ v[d] = "$"
    /\ v[d + 1] /= "{"
    /\ \A i \in 1..(d - 1) : v[i] /= "$"

\* last position of the name that starts at v[d + 1]: that character, whatever
\* it is, and the name characters that follow it
BareNameEnd(v, d) ==
    CHOOSE e \in (d + 1)..Len(v) :
        /\ \A i \in (d + 2)..e : IsNameChar(v[i])
        /\ e < Len(v) => ~IsNameChar(v[e + 1])

\* s ends with t
IsSuffix(t, s) == Len(t) <= Len(s) /\ SubSeq(s, Len(s) - Len(t) + 1, Len(s)) = t

\* one more than the longest value of the entries
Width ==
    LET lens == {Len(lines[i].v) : i \in 1..Len(lines)} \cup {0}
    IN  1 + (CHOOSE n \in lens : \A m \in lens : m <= n)

\* what is left of a call of expand: entries still to pass, then characters still
\* to read; 0 when no call is running
Rank ==
    CASE pc = "idle" -> 0
      [] pc = "for" -> (Len(lines) + 1 - li) * (Width + 1) + 1
      [] pc = "scan" -> (Len(lines) - li) * (Width + 1) + 2 + Len(chars)

-----------------------------------------------------------------------------
(* The properties *)

\* C1: in a double-quoted value, a bare reference $NAME followed by a character
\* that is not alphanumeric or underscore is rewritten to the resolved value of
\* NAME followed by that character, also when that character is the last one.
C1_TerminatorCopied ==
    ScanDone =>
        \A d, t \in 1..Len(line.v) :
            BareRefAt(line.v, d, t) =>
                new_val = SubSeq(line.v, 1, d - 1)
                          \o Resolve(acc, SubSeq(line.v, d + 1, t - 1))
                          \o <<line.v[t]>>
                          \o SubSeq(line.v, t + 1, Len(line.v))

\* C2: every key whose last entry in file order is single-quoted or unquoted
\* maps, in the map expand returns, to that entry's literal value.
C2_UnquotedNeverRewritten ==
    Returned =>
        \A k \in DOMAIN acc :
            LET last == lines[LastIndex(lines, k)]
            IN  last.q /= "Double" => acc[k] = last.v

\* C3: the map to_hash_map returns has exactly the keys of the KeyVal lines,
\* and each key maps to the verbatim value of the last line with that key.
C3_PlainLastWins ==
    hash /= None =>
        LET h == hash[1]
            kv == {i \in 1..Len(input) : input[i].kind = "KeyVal"}
        IN  /\ DOMAIN h = {input[i].k : i \in kv}
            /\ \A i \in kv :
                   (\A j \in kv : j > i => input[j].k /= input[i].k)
                       => h[input[i].k] = input[i].v

\* to_hash_map has returned for an input with a Comment line and a key defined
\* twice with different values, the last of them holding a '$'
C3_Witness ==
    /\ hash /= None
    /\ \E c \in 1..Len(input) : input[c].kind = "Comment"
    /\ \E i, j \in 1..Len(input) :
           /\ i < j
           /\ input[i].kind = "KeyVal"
           /\ input[j].kind = "KeyVal"
           /\ input[i].k = input[j].k
           /\ input[i].v /= input[j].v
           /\ HasChar(input[j].v, "$")

\* C4: a double-quoted value prefix ${NAME} suffix, with no '$' in prefix and
\* suffix and NAME ending at the first '}', is rewritten to
\* prefix + resolve(NAME) + suffix.
C4_BraceRefRewritten ==
    ScanDone =>
        \A o, c \in 1..Len(line.v) :
            BraceRefAt(line.v, o, c) =>
                new_val = SubSeq(line.v, 1, o - 1)
                          \o Resolve(acc, SubSeq(line.v, o + 2, c - 1))
                          \o SubSeq(line.v, c + 1, Len(line.v))

\* the second entry, of the form prefix ${NAME} suffix with both affixes non-empty
\* and NAME the key of the first entry, has been scanned
C4_Witness ==
    /\ ScanDone
    /\ li = 2
    /\ \E o, c \in 1..Len(line.v) :
           /\ BraceRefAt(line.v, o, c)
           /\ o > 1
           /\ c < Len(line.v)
           /\ SubSeq(line.v, o + 2, c - 1) = lines[1].k
           /\ lines[1].k /= line.k
           /\ new_val = SubSeq(line.v, 1, o - 1) \o lines[1].v \o SubSeq(line.v, c + 1, Len(line.v))

\* C5: a name the accumulator holds resolves to the accumulator's value even
\* when the environment defines it too; the environment's value is used only
\* for a name the accumulator does not hold.
C5_AccumulatorBeforeEnvironment ==
    ScanDone =>
        \A n \in DOMAIN environ :
            line.v \in {BraceForm(n), BareForm(n)} =>
                new_val = IF n \in DOMAIN acc THEN acc[n] ELSE environ[n]

\* a reference to a name that the accumulator and the environment define differently
\* has been resolved
C5_Witness ==
    /\ ScanDone
    /\ \E n \in (DOMAIN environ) \cap (DOMAIN acc) :
           /\ line.v \in {BraceForm(n), BareForm(n)}
           /\ acc[n] /= environ[n]
           /\ new_val = acc[n]

\* C6: a reference to a name that neither the entries nor the environment
\* define is replaced by the empty string, and expand returns a map: an entry
\* X="${UNSET}" gives X -> "".
C6_UndefinedIsEmpty ==
    Returned =>
        \A i \in 1..Len(lines) :
            ( /\ lines[i].q = "Double"
              /\ OnlyEntry(lines, i)
              /\ \E n \in WholeRefNames(lines[i].v) :
                     n \notin KeysOf(lines) /\ n \notin DOMAIN environ )
            => /\ lines[i].k \in DOMAIN acc
               /\ acc[lines[i].k] = << >>

\* expand has returned for an input with a double-quoted entry that is one
\* reference to a non-empty name defined nowhere
C6_Witness ==
    /\ Returned
    /\ \E i \in 1..Len(lines) :
           /\ lines[i].q = "Double"
           /\ OnlyEntry(lines, i)
           /\ \E n \in WholeRefNames(lines[i].v) :
                  n /= << >> /\ n \notin KeysOf(lines) /\ n \notin DOMAIN environ
           /\ acc[lines[i].k] = << >>

\* C7: when "${" has no closing '}' before the end of the value, the name is the
\* whole remainder after "${", its resolved value is appended and nothing
\* follows it.
C7_UnterminatedBrace ==
    ScanDone =>
        \A o \in 1..(Len(line.v) - 1) :
            ( /\ line.v[o] = "$"
              /\ line.v[o + 1] = "{"
              /\ \A i \in 1..(o - 1) : line.v[i] /= "$"
              /\ \A i \in (o + 2)..Len(line.v) : line.v[i] /= "}" )
            => new_val = SubSeq(line.v, 1, o - 1)
                         \o Resolve(acc, SubSeq(line.v, o + 2, Len(line.v)))

\* a value with text, then an unterminated "${" and the key of another entry,
\* has been scanned
C7_Witness ==
    /\ ScanDone
    /\ li = 2
    /\ \E o \in 2..(Len(line.v) - 2) :
           /\ line.v[o] = "$"
           /\ line.v[o + 1] = "{"
           /\ \A i \in 1..(o - 1) : line.v[i] /= "$"
           /\ SubSeq(line.v, o + 2, Len(line.v)) = lines[1].k
           /\ lines[1].k /= line.k
           /\ new_val = SubSeq(line.v, 1, o - 1) \o lines[1].v

\* C8 as stated: a double-quoted entry that is one reference to its own key
\* resolves it to its own raw value, for every sequence of entries.
C8_SelfRefSeesOwnRaw ==
    (ScanDone /\ IsWholeRef(line.v, line.k)) => new_val = line.v

\* C8 as amended: the self-reference resolves to the accumulator's value of the
\* key: with no earlier double-quoted entry of that key, the raw value of the
\* last entry with the key (its own raw value when it is that entry); with
\* one, the value that entry's expansion stored.
C8_SelfRefSeesAccumulator ==
    (ScanDone /\ IsWholeRef(line.v, line.k)) =>
        /\ ~EarlierDouble(lines, li) => new_val = lines[LastIndex(lines, line.k)].v
        /\ (~EarlierDouble(lines, li) /\ LastIndex(lines, line.k) = li) => new_val = line.v
        /\ EarlierDouble(lines, li) => new_val = acc[line.k]
        /\ \A j \in 1..(li - 1) :
               ( /\ lines[j].k = line.k
                 /\ lines[j].q = "Double"
                 /\ ~HasChar(lines[j].v, "$")
                 /\ \A m \in (j + 1)..(li - 1) :
                        ~(lines[m].k = line.k /\ lines[m].q = "Double") )
               => new_val = lines[j].v

\* a self-referencing entry, the last with its key and after another entry with
\* that key that is not double-quoted, has been scanned
C8_Witness ==
    /\ ScanDone
    /\ IsWholeRef(line.v, line.k)
    /\ li > 1
    /\ lines[1].k = line.k
    /\ lines[1].v /= line.v
    /\ ~EarlierDouble(lines, li)
    /\ LastIndex(lines, line.k) = li
    /\ new_val = line.v

\* C9 as stated: when A references B and B references C, the value expand
\* returns for A is B's raw text, in every order of the lines.
C9_ChainSeesRaw ==
    Returned =>
        \A a, b, c \in 1..Len(lines) :
            Chain(lines, a, b, c) => acc[lines[a].k] = lines[b].v

\* C9 as amended: A gets B's raw text when A's line comes before B's line, and
\* B's expanded value when B's line comes first.
C9_ChainSinglePass ==
    Returned =>
        \A a, b, c \in 1..Len(lines) :
            Chain(lines, a, b, c) =>
                /\ a < b => acc[lines[a].k] = lines[b].v
                /\ b < a => acc[lines[a].k] = acc[lines[b].k]

\* expand has returned for a chain whose A line comes before its B line, and
\* B's expanded value differs from its raw text
C9_Witness ==
    /\ Returned
    /\ \E a, b, c \in 1..Len(lines) :
           /\ Chain(lines, a, b, c)
           /\ a < b
           /\ acc[lines[a].k] = lines[b].v
           /\ acc[lines[b].k] /= lines[b].v

\* C10: a resolved value is appended verbatim: where it holds a '$' the
\* rewritten value holds it unchanged, and a reference to a later
\* double-quoted entry yields that entry's raw text.
C10_ResolvedVerbatim ==
    ScanDone =>
        /\ \A o, c \in 1..Len(line.v) :
               LET n == SubSeq(line.v, o + 2, c - 1)
               IN  ( /\ BraceRefAt(line.v, o, c)
                     /\ n \in DOMAIN acc
                     /\ HasChar(acc[n], "$") )
                   => new_val = SubSeq(line.v, 1, o - 1) \o acc[n]
                                \o SubSeq(line.v, c + 1, Len(line.v))
        /\ \A n \in DOMAIN acc :
               (line.v = BareForm(n) /\ IsWholeRef(line.v, n) /\ HasChar(acc[n], "$"))
                   => new_val = acc[n]
        /\ \A j \in (li + 1)..Len(lines) :
               ( /\ IsWholeRef(line.v, lines[j].k)
                 /\ lines[j].q = "Double"
                 /\ OnlyEntry(lines, j) )
               => new_val = lines[j].v

\* a reference, between text, to another entry whose value is itself a
\* reference has been scanned
C10_Witness ==
    /\ ScanDone
    /\ \E o, c \in 2..(Len(line.v) - 1) :
           LET n == SubSeq(line.v, o + 2, c - 1)
           IN  /\ BraceRefAt(line.v, o, c)
               /\ n \in DOMAIN acc
               /\ n /= line.k
               /\ WholeRefNames(acc[n]) /= {}
               /\ new_val = SubSeq(line.v, 1, o - 1) \o acc[n]
                             \o SubSeq(line.v, c + 1, Len(line.v))

C12_DollarTerminatorLiteral ==
    ScanDone =>
        \A d, t \in 1..Len(line.v) :
            (BareRefAt(line.v, d, t) /\ line.v[t] = "$") =>
                new_val = SubSeq(line.v, 1, d - 1)
                          \o Resolve(acc, SubSeq(line.v, d + 1, t - 1))
                          \o <<"$">>
                          \o SubSeq(line.v, t + 1, Len(line.v))

\* C13: after a '$', a character other than '{' is the first character of the
\* name whether or not it is a name character; the name extends over the name
\* characters that follow; the rewritten value continues with the resolved
\* value of that name in place of the '$' and the name.
C13_AnyFirstNameChar ==
    ScanDone =>
        \A d \in 1..Len(line.v) :
            FirstBareAt(line.v, d) =>
                LET e == BareNameEnd(line.v, d)
                    out == SubSeq(line.v, 1, d - 1) \o Resolve(acc, SubSeq(line.v, d + 1, e))
                IN  /\ IsPrefix(out, new_val)
                    /\ e = Len(line.v) => new_val = out
                    /\ (e + 1 < Len(line.v) /\ \A i \in (e + 2)..Len(line.v) : line.v[i] /= "$")
                           => new_val = out \o SubSeq(line.v, e + 1, Len(line.v))

\* a value with text, then '$' and a name that starts with a character that is
\* not a name character and is the key of another entry, has been scanned
C13_Witness ==
    /\ ScanDone
    /\ li = 2
    /\ \E d \in 2..Len(line.v) :
           /\ FirstBareAt(line.v, d)
           /\ ~IsNameChar(line.v[d + 1])
           /\ SubSeq(line.v, d + 1, BareNameEnd(line.v, d)) = lines[1].k
           /\ new_val = SubSeq(line.v, 1, d - 1) \o lines[1].v

\* C14: every step inside a scan reads at least one character and leaves a
\* suffix of what was unread, the scan is left only when nothing is unread, and
\* every step of a call of expand brings it closer to its return: expand
\* terminates.
C14_ScanTerminates ==
    [][ /\ (pc = "scan" /\ pc' = "scan") =>
              (Len(chars') < Len(chars) /\ IsSuffix(chars', chars))
        /\ (pc = "scan" /\ pc' /= "scan") => (chars = << >> /\ li' = li + 1)
        /\ pc = "scan" => IsSuffix(chars, line.v)
        /\ pc /= "idle" => Rank' < Rank ]_vars_all

\* expand has returned after scanning an entry, the second of its input, that
\* holds a bare reference whose terminator was replayed
C14_Witness ==
    /\ Returned
    /\ Len(lines) = 2
    /\ lines[2].q = "Double"
    /\ acc[lines[2].k] /= lines[2].v
    /\ \E d \in 1..(Len(lines[2].v) - 3) :
           /\ lines[2].v[d] = "$"
           /\ IsNameChar(lines[2].v[d + 1])
           /\ ~IsNameChar(lines[2].v[d + 2])

\* C15: at every step of a call of expand the accumulator has exactly the keys
\* of the plain map, so no name of the environment that is not a key enters it;
\* and a key with no double-quoted entry has in the map expand returns the value
\* it has in the plain map.
C15_KeySetKept ==
    vars /= None =>
        /\ DOMAIN acc = KeysOf(lines)
        /\ DOMAIN acc = DOMAIN to_hash_map(lines)
        /\ \A k \in DOMAIN acc :
               (\A i \in 1..Len(lines) : lines[i].k = k => lines[i].q /= "Double")
                   => acc[k] = to_hash_map(lines)[k]

\* expand has returned a map that differs from the plain map,
\* for entries with a key that has no double-quoted entry, where a name of the
\* environment that is not a key was referred to
C15_Witness ==
    /\ Returned
    /\ to_hash_map(lines) /= acc
    /\ \E k \in DOMAIN acc : \A i \in 1..Len(lines) : lines[i].k = k => lines[i].q /= "Double"
    /\ \E n \in DOMAIN environ :
           /\ n \notin DOMAIN acc
           /\ \E i \in 1..Len(lines) : lines[i].q = "Double" /\ n \in WholeRefNames(lines[i].v)

\* the value of the current entry is p followed by a last '$', and p has no '$'
EndsInLoneDollar ==
    /\ Len(line.v) > 0
    /\ line.v[Len(line.v)] = "$"
    /\ \A i \in 1..(Len(line.v) - 1) : line.v[i] /= "$"

\* C16: when the scan reads a '$' with nothing after it, the empty name is not a
\* key of the accumulator, the step adds nothing to the output and keeps what was
\* built, and the scan goes on to its normal end; for a value that is p followed
\* by a last '$', with no '$' in p, the rewritten value is p and it is what the
\* end of the scan stores under the key.
C16_TrailingDollarEmptyName ==
    [][ /\ (pc = "scan" /\ chars = <<"$">>) =>
              /\ << >> \notin DOMAIN acc
              /\ Resolve(acc, << >>) = << >>
              /\ new_val' = new_val
              /\ chars' = << >>
              /\ pc' = "scan"
        /\ (ScanDone /\ EndsInLoneDollar) =>
              /\ new_val = SubSeq(line.v, 1, Len(line.v) - 1)
              /\ pc' = "for"
              /\ vars'[1][line.k] = SubSeq(line.v, 1, Len(line.v) - 1)
      ]_vars_all

\* a value of at least one character and then a last '$' has been scanned to its end
C16_Witness ==
    /\ ScanDone
    /\ EndsInLoneDollar
    /\ Len(line.v) > 1
    /\ new_val = SubSeq(line.v, 1, Len(line.v) - 1)

-----------------------------------------------------------------------------
(* Vocabulary of the launcher's properties *)

\* how many times the step s was taken
Times(s) == Cardinality({i \in 1..Len(main.log) : main.log[i] = s})

\* the steps main takes up to the spawn, in the order of the code
UpToSpawn == <<"args", "path", "binary", "file", "spawn">>

\* the launcher has exited and it had spawned the child
ExitedAfterSpawn == main.at = "done" /\ main.spawned > 0

\* the exit code the child hands down: its own, or 1 when it has none
ChildCode == IF main.program[1] = None THEN Some(1) ELSE main.program[1]

WaitFailed == main.log = UpToSpawn \o <<"wait", "fatal">>

\* C17 as stated: after a spawn the launcher always exits with the child's exit
\* code, or with 1 when the child reports none.
C17_ExitIsChildCode ==
    ExitedAfterSpawn => main.exit = ChildCode

\* C17: the child is spawned at most once, and only after the arguments were
\* parsed, the path and the binary name were there and the file was parsed, in
\* this order; when help is asked for the launcher exits with 0 right after the
\* arguments were parsed, with no file read and no child; no step is taken twice;
\* after a spawn the launcher exits with the child's exit code, or 1 when the
\* child reports none, unless waiting for the child failed, and then it ends
\* with the fatal error.
C17_LauncherOrder ==
    /\ main.spawned <= 1
    /\ \A s \in {"args", "help", "path", "binary", "file", "spawn", "wait", "exit", "fatal"} : Times(s) <= 1
    /\ (main.spawned > 0 \/ Times("spawn") > 0) =>
          /\ IsPrefix(UpToSpawn, main.log) \/ main.log = SubSeq(UpToSpawn, 1, 4) \o <<"spawn", "fatal">>
          /\ main.args /= None /\ ~main.args[1].help
          /\ main.fpath /= None /\ main.binary /= None /\ main.vars
       /\ (main.spawned > 0) = (main.program /= None)
    /\ (main.args /= None /\ main.args[1].help) =>
          /\ IsPrefix(main.log, <<"args", "help">>)
          /\ ~main.vars /\ main.spawned = 0
          /\ main.at = "done" => (main.exit = Some(0) /\ main.log = <<"args", "help">>)
    /\ ExitedAfterSpawn =>
          \/ main.log = UpToSpawn \o <<"wait", "exit">> /\ main.exit = ChildCode
          \/ WaitFailed

\* the launcher has exited with 1 after a child that reported no exit code
C17_Witness ==
    /\ ExitedAfterSpawn
    /\ main.program = Some(None)
    /\ main.log = UpToSpawn \o <<"wait", "exit">>
    /\ main.exit = Some(1)

====
